---- MODULE Spec2Model ----
(***************************************************************************)
(* Model of tplay's glyph encoders (src/pipeline/char_maps.rs) and of the  *)
(* ImagePipeline (src/pipeline/image_pipeline.rs).                         *)
(*                                                                         *)
(* Characters are modelled by their Unicode code points.  A u32 is a pair  *)
(* <<hi, lo>> of 16-bit halves, so that the 32-bit products of resize and  *)
(* to_ascii keep their width.                                              *)
(***************************************************************************)
EXTENDS Integers, Naturals, Sequences, FiniteSets, TLC

VARIABLES
    target_resolution,  \* ImagePipeline.target_resolution: <<width, height>>, each a u32
    char_map,           \* ImagePipeline.char_map
    new_lines,          \* ImagePipeline.new_lines
    overflow_checks,    \* build profile: TRUE when integer overflow panics (debug)
    resized,            \* outcome of the last call of resize
    ascii,              \* outcome of the last call of to_ascii
    enc_map,            \* encoder of a single get_char call
    enc_image,          \* the pixel block handed to that call
    enc_char            \* what that call returned

vars == <<target_resolution, char_map, new_lines, overflow_checks, resized, ascii,
          enc_map, enc_image, enc_char>>

pipeline_vars == <<target_resolution, char_map, new_lines, overflow_checks, resized, ascii>>

encoder_vars == <<enc_map, enc_image, enc_char>>

-----------------------------------------------------------------------------
(* Bounds *)

\* largest small width/height of a target resolution
MaxDim == 2
\* longest user-supplied character sequence
MaxLen == 3
\* most changes of the pipeline's fields while the caller holds a resized buffer
MaxChanges == 1

-----------------------------------------------------------------------------
(* Integer helpers *)

RECURSIVE BitAnd(_, _)
BitAnd(a, b) ==
    IF a = 0 \/ b = 0 THEN 0
    ELSE (IF a % 2 = 1 /\ b % 2 = 1 THEN 1 ELSE 0) + 2 * BitAnd(a \div 2, b \div 2)

RECURSIVE BitOr(_, _)
BitOr(a, b) ==
    IF a = 0 THEN b
    ELSE IF b = 0 THEN a
    ELSE (IF a % 2 = 1 \/ b % 2 = 1 THEN 1 ELSE 0) + 2 * BitOr(a \div 2, b \div 2)

\* a result of a function returning char: a character or a panic
Char(c) == [panic |-> FALSE, ch |-> c]
Panicked == [panic |-> TRUE, ch |-> 0]

\* char::from_u32(v).unwrap()
from_u32(v) ==
    IF v < 0 \/ v > 1114111 \/ (v >= 55296 /\ v <= 57343) THEN Panicked ELSE Char(v)

\* a u32 is <<hi, lo>>, value hi * 2^16 + lo, with both halves in 0..2^16-1
Half == 2 ^ 16

U32(n) == <<n \div Half, n % Half>>

IsZero(v) == v = <<0, 0>>

\* the u32 product v * k for a small k: the wrapped value and whether it wrapped
MulU32(v, k) ==
    LET lo == v[2] * k
        hi == v[1] * k + (lo \div Half)
    IN  [val |-> <<hi % Half, lo % Half>>, overflow |-> hi >= Half]

\* the value of a u32 known to be small
Nat32(v) == v[1] * Half + v[2]


-----------------------------------------------------------------------------
(* char_maps.rs *)

\* " .:-=+*#%@"
CHARS1 == <<32, 46, 58, 45, 61, 43, 42, 35, 37, 64>>

Simple(chars) == [kind |-> "Simple", chars |-> chars]
Braille == [kind |-> "Braille", chars |-> <<>>]
Mosaic == [kind |-> "Mosaic", chars |-> <<>>]
TeletextMosaic == [kind |-> "TeletextMosaic", chars |-> <<>>]

\* impl From<T> for CharMaps
CharMapsFrom(value) == Simple(value)

\* the threshold test of the dot-matrix encoders: pixel > 127
Lit(lum) == lum > 127

\* impl CharMap for Vec<char>: get_char
VecGetChar(chars, image) ==
    LET lum == image[<<0, 0>>]
        lookup_idx == (Len(chars) * lum) \div (255 + 1)
    IN  IF lookup_idx < Len(chars) THEN Char(chars[lookup_idx + 1]) ELSE Panicked

BRAILLE_BLANK == 10240

braille_dots ==
    << <<<<0, 0>>, 1>>, <<<<1, 0>>, 8>>, <<<<0, 1>>, 2>>, <<<<1, 1>>, 16>>,
       <<<<0, 2>>, 4>>, <<<<1, 2>>, 32>>, <<<<0, 3>>, 64>>, <<<<1, 3>>, 128>> >>

braille_dots_dup ==
    << <<<<0, 0>>, 1>>, <<<<1, 0>>, 1>>, <<<<0, 1>>, 2>>, <<<<1, 1>>, 16>>,
       <<<<0, 2>>, 4>>, <<<<1, 2>>, 32>>, <<<<0, 3>>, 64>>, <<<<1, 3>>, 128>> >>

\* the loop of Braille::get_char after its first i table entries
RECURSIVE BrailleLoop(_, _, _)
BrailleLoop(dots, image, i) ==
    IF i = 0 THEN BRAILLE_BLANK
    ELSE LET braille == BrailleLoop(dots, image, i - 1)
         IN  IF Lit(image[dots[i][1]]) THEN BitOr(braille, dots[i][2]) ELSE braille

\* the loop of Braille::get_char with the sense of the threshold inverted
RECURSIVE BrailleLoopDark(_, _, _)
BrailleLoopDark(dots, image, i) ==
    IF i = 0 THEN BRAILLE_BLANK
    ELSE LET braille == BrailleLoopDark(dots, image, i - 1)
         IN  IF ~Lit(image[dots[i][1]]) THEN BitOr(braille, dots[i][2]) ELSE braille

BrailleGetCharDark(image) == from_u32(BrailleLoopDark(braille_dots, image, Len(braille_dots)))

BrailleGetCharDup(image) == from_u32(BrailleLoop(braille_dots_dup, image, Len(braille_dots_dup)))

\* Braille::get_char
BrailleGetChar(image) == from_u32(BrailleLoop(braille_dots, image, Len(braille_dots)))

MOSAIC_BASE == 129792

mosaic_char_seq(bitmask) ==
    IF bitmask = 0 THEN Char(32)
    ELSE IF bitmask >= 1 /\ bitmask <= 21 THEN from_u32(MOSAIC_BASE + bitmask - 1)
    ELSE IF bitmask >= 22 /\ bitmask <= 41 THEN from_u32(MOSAIC_BASE + bitmask - 2)
    ELSE IF bitmask = 42 THEN Char(9616)
    ELSE IF bitmask >= 43 /\ bitmask <= 62 THEN from_u32(MOSAIC_BASE + bitmask - 3)
    ELSE IF bitmask = 63 THEN Char(9608)
    ELSE Panicked

\* fn mosaic_char(bitmask: u8) -> char
mosaic_char(bitmask) ==
    IF bitmask = 0 THEN Char(32)
    ELSE IF bitmask >= 1 /\ bitmask <= 20 THEN from_u32(MOSAIC_BASE + bitmask - 1)
    ELSE IF bitmask = 21 THEN Char(9612)
    ELSE IF bitmask >= 22 /\ bitmask <= 41 THEN from_u32(MOSAIC_BASE + bitmask - 2)
    ELSE IF bitmask = 42 THEN Char(9616)
    ELSE IF bitmask >= 43 /\ bitmask <= 62 THEN from_u32(MOSAIC_BASE + bitmask - 3)
    ELSE IF bitmask = 63 THEN Char(9608)
    ELSE Panicked

mosaic_blocks ==
    << <<<<0, 0>>, 1>>, <<<<1, 0>>, 2>>, <<<<0, 1>>, 4>>, <<<<1, 1>>, 8>>,
       <<<<0, 2>>, 16>>, <<<<1, 2>>, 32>> >>

\* the loop of Mosaic::get_char and TeletextMosaic::get_char (mosaic is a u8)
RECURSIVE MosaicLoop(_, _)
MosaicLoop(image, i) ==
    IF i = 0 THEN 0
    ELSE LET mosaic == MosaicLoop(image, i - 1)
         IN  IF Lit(image[mosaic_blocks[i][1]])
             THEN (mosaic + mosaic_blocks[i][2]) % 256
             ELSE mosaic

\* the bitmask both mosaic encoders hand to their *_char function
MosaicMask(image) == MosaicLoop(image, Len(mosaic_blocks))

\* Mosaic::get_char
MosaicGetChar(image) == mosaic_char(MosaicMask(image))

TELETEXT_BASE == 57376

teletext_mosaic_char_wide(bitmask) ==
    IF bitmask >= 64 THEN Panicked
    ELSE LET mosaic == TELETEXT_BASE + BitAnd(bitmask, 31) + BitAnd(bitmask, 32) * 8
         IN  IF ~(mosaic >= 57344 /\ mosaic <= 57599) THEN Panicked
             ELSE from_u32(mosaic)

\* fn teletext_mosaic_char(bitmask: u8) -> char
teletext_mosaic_char(bitmask) ==
    IF bitmask >= 64 THEN Panicked
    ELSE LET mosaic == TELETEXT_BASE + BitAnd(bitmask, 31) + BitAnd(bitmask, 32) * 2
         IN  IF ~(mosaic >= 57344 /\ mosaic <= 57599) THEN Panicked
             ELSE from_u32(mosaic)

\* TeletextMosaic::get_char
TeletextGetChar(image) == teletext_mosaic_char(MosaicMask(image))

\* CharMaps::get_char
get_char(map, image) ==
    CASE map.kind = "Simple" -> VecGetChar(map.chars, image)
      [] map.kind = "Braille" -> BrailleGetChar(image)
      [] map.kind = "Mosaic" -> MosaicGetChar(image)
      [] map.kind = "TeletextMosaic" -> TeletextGetChar(image)

\* CharMaps::get_subpixels
get_subpixels(map) ==
    CASE map.kind = "Simple" -> <<1, 1>>
      [] map.kind = "Braille" -> <<2, 4>>
      [] map.kind = "Mosaic" -> <<2, 3>>
      [] map.kind = "TeletextMosaic" -> <<2, 3>>

\* CharMaps::get_line_prefix
get_line_prefix(map) ==
    IF map.kind = "TeletextMosaic" THEN <<57367>> ELSE <<>>

-----------------------------------------------------------------------------
(* image_pipeline.rs *)

\* widths and heights a caller may pass: small ones, 2^31 and 2^31 + 1
SmallDims == {U32(n) : n \in 0..MaxDim}
BigDims == {<<32768, 0>>, <<32768, 1>>}
Resolutions == (SmallDims \cup BigDims) \X (SmallDims \cup BigDims)

\* the char maps a pipeline is built with
PipeMaps == {CharMapsFrom(CHARS1), CharMapsFrom(<<>>), Braille, Mosaic, TeletextMosaic}

\* dimensions of the source images handed to resize
SrcImages == {U32(0), U32(4)} \X {U32(0), U32(4)}

\* contents of a resized luminance buffer: all dark, all bright, or mixed
Patterns == {"bright", "mixed"}

Pixel(pat, x, y) ==
    CASE pat = "dark" -> 0
      [] pat = "bright" -> 255
      [] pat = "mixed" -> (x * 128 + y * 127) % 256

\* GenericImageView::view(x, y, width, height) of a buffer with those contents
View(pat, x0, y0, w, h) ==
    [p \in (0..(w - 1)) \X (0..(h - 1)) |-> Pixel(pat, x0 + p[1], y0 + p[2])]

\* ImagePipeline::new, for a build with or without overflow checks
Init ==
    /\ target_resolution \in Resolutions
    /\ char_map \in PipeMaps
    /\ new_lines \in BOOLEAN
    /\ overflow_checks \in BOOLEAN
    /\ resized = [status |-> "none"]
    /\ ascii = [status |-> "none"]
    /\ enc_map = Braille
    /\ enc_image = View("dark", 0, 0, 2, 4)
    /\ enc_char = <<>>

\* what the caller still holds of the last resize after changing the pipeline:
\* the buffers of a successful call, nothing of a failed one
Held(r) ==
    IF r.status = "ok" THEN [r EXCEPT !.changes = @ + 1] ELSE [status |-> "none"]

CanChange == resized.status = "ok" => resized.changes < MaxChanges

\* ImagePipeline::set_target_resolution
SetTargetResolution ==
    \E width, height \in SmallDims \cup BigDims :
        /\ CanChange
        /\ target_resolution' = <<width, height>>
        /\ resized' = Held(resized)
        /\ ascii' = [status |-> "none"]
        /\ UNCHANGED <<char_map, new_lines, overflow_checks>>
        /\ UNCHANGED encoder_vars

\* an assignment to the public field char_map
SetCharMap ==
    \E map \in PipeMaps :
        /\ CanChange
        /\ char_map' = map
        /\ resized' = Held(resized)
        /\ ascii' = [status |-> "none"]
        /\ UNCHANGED <<target_resolution, new_lines, overflow_checks>>
        /\ UNCHANGED encoder_vars

\* ImagePipeline::resize_single; prim_ok: whether fr::Resizer::resize succeeds.
\* prim counts the calls of that primitive.
resize_single(img, width, height, prim_ok) ==
    IF IsZero(img[1]) THEN [status |-> "err_data", image |-> <<>>, prim |-> 0]
    ELSE IF IsZero(img[2]) THEN [status |-> "err_data", image |-> <<>>, prim |-> 0]
    ELSE IF ~prim_ok THEN [status |-> "err_resize", image |-> <<>>, prim |-> 1]
    ELSE [status |-> "ok", image |-> <<width, height>>, prim |-> 1]

\* ImagePipeline::resize on a source image of dimensions img
resize(img, pat, prim_ok1, prim_ok2) ==
    LET subpixel_res == get_subpixels(char_map)
        mw == MulU32(target_resolution[1], subpixel_res[1])
        mh == MulU32(target_resolution[2], subpixel_res[2])
        out(status, lum, color, prim) ==
            [status |-> status, lum |-> lum, color |-> color, pat |-> pat,
             prim_calls |-> prim, img |-> img,
             res |-> target_resolution, map |-> char_map, changes |-> 0]
    IN  IF mw.overflow /\ overflow_checks THEN out("panic", <<>>, <<>>, 0)
        ELSE IF IsZero(mw.val) THEN out("err_data", <<>>, <<>>, 0)
        ELSE IF mh.overflow /\ overflow_checks THEN out("panic", <<>>, <<>>, 0)
        ELSE IF IsZero(mh.val) THEN out("err_data", <<>>, <<>>, 0)
        ELSE LET subpixel_img == resize_single(img, mw.val, mh.val, prim_ok1)
             IN  IF subpixel_img.status # "ok"
                 THEN out(subpixel_img.status, <<>>, <<>>, subpixel_img.prim)
                 ELSE IF IsZero(target_resolution[1]) \/ IsZero(target_resolution[2])
                 THEN out("err_data", <<>>, <<>>, subpixel_img.prim)
                 ELSE LET color_img == resize_single(subpixel_img.image,
                                           target_resolution[1], target_resolution[2], prim_ok2)
                      IN  IF color_img.status # "ok"
                          THEN out(color_img.status, <<>>, <<>>,
                                   subpixel_img.prim + color_img.prim)
                          ELSE out("ok", subpixel_img.image, color_img.image,
                                   subpixel_img.prim + color_img.prim)

Resize ==
    \E img \in SrcImages, pat \in Patterns, prim_ok1, prim_ok2 \in BOOLEAN :
        /\ resized' = resize(img, pat, prim_ok1, prim_ok2)
        /\ ascii' = [status |-> "none"]
        /\ UNCHANGED <<target_resolution, char_map, new_lines, overflow_checks>>
        /\ UNCHANGED encoder_vars

line_break_trailing(y, height) ==
    IF new_lines /\ y <= height - 1 THEN <<10, 13>> ELSE <<>>

\* the '\n', '\r' chained to row y of height rows
line_break(y, height) ==
    IF new_lines /\ y < height - 1 THEN <<10, 13>> ELSE <<>>

\* the glyphs of row y: one get_char per column
RowGlyphs(pat, y, width) ==
    LET sub == get_subpixels(char_map)
    IN  [x \in 1..width |->
            get_char(char_map, View(pat, (x - 1) * sub[1], y * sub[2], sub[1], sub[2]))]

to_ascii_line_prefixed(pat, y, width, height) ==
    get_line_prefix(char_map)
        \o [x \in 1..width |-> RowGlyphs(pat, y, width)[x].ch] \o line_break(y, height)

\* the String collected for row y in to_ascii
to_ascii_line(pat, y, width, height) ==
    [x \in 1..width |-> RowGlyphs(pat, y, width)[x].ch] \o line_break(y, height)

\* ImagePipeline::to_ascii on a buffer of dimensions input and contents pat
to_ascii(input, pat) ==
    LET width == target_resolution[1]
        height == target_resolution[2]
        sub == get_subpixels(char_map)
        mw == MulU32(width, sub[1])
        mh == MulU32(height, sub[2])
        panic == [status |-> "panic", lines |-> <<>>]
    IN  IF mw.overflow /\ overflow_checks THEN panic
        ELSE IF mw.val # input[1] THEN panic
        ELSE IF mh.overflow /\ overflow_checks THEN panic
        ELSE IF mh.val # input[2] THEN panic
        ELSE IF IsZero(height) THEN [status |-> "ok", lines |-> <<>>]
        ELSE IF (mw.overflow \/ mh.overflow) /\ ~IsZero(width) THEN panic
        ELSE LET w == Nat32(width)
                 h == Nat32(height)
             IN  IF \E y \in 0..(h - 1) : \E x \in 1..w : RowGlyphs(pat, y, w)[x].panic
                 THEN panic
                 ELSE [status |-> "ok",
                       lines |-> [y \in 1..h |-> to_ascii_line(pat, y - 1, w, h)]]

\* the output of to_ascii is too large to enumerate: the assertions pass and
\* every view is in bounds, but the grid is not a small one
TooLarge(input) ==
    LET width == target_resolution[1]
        height == target_resolution[2]
        sub == get_subpixels(char_map)
        mw == MulU32(width, sub[1])
        mh == MulU32(height, sub[2])
    IN  /\ ~((mw.overflow \/ mh.overflow) /\ overflow_checks)
        /\ mw.val = input[1] /\ mh.val = input[2]
        /\ ~IsZero(height)
        /\ ~((mw.overflow \/ mh.overflow) /\ ~IsZero(width))
        /\ ~(width \in SmallDims /\ height \in SmallDims)

\* to_ascii called on the luminance buffer the last resize returned
ToAscii ==
    /\ resized.status = "ok"
    /\ ~TooLarge(resized.lum)
    /\ ascii' = to_ascii(resized.lum, resized.pat)
    /\ UNCHANGED <<target_resolution, char_map, new_lines, overflow_checks, resized>>
    /\ UNCHANGED encoder_vars

Next == SetTargetResolution \/ SetCharMap \/ Resize \/ ToAscii

Spec == Init /\ [][Next]_vars

-----------------------------------------------------------------------------
(* Properties of the pipeline, checked under Spec *)

\* the exact product of a u32 and a block size equals the u32 p
IsProduct(p, v, k) == ~MulU32(v, k).overflow /\ MulU32(v, k).val = p

\* C1: for every target resolution (w,h) with w,h >= 1, every encoder and every
\* source image, a successful resize returns a luminance buffer of exactly
\* (w*blockW, h*blockH), as true integer products, and a color buffer of (w,h).
C1_ExactDims ==
    (resized.status = "ok" /\ ~IsZero(resized.res[1]) /\ ~IsZero(resized.res[2])) =>
        /\ IsProduct(resized.lum[1], resized.res[1], get_subpixels(resized.map)[1])
        /\ IsProduct(resized.lum[2], resized.res[2], get_subpixels(resized.map)[2])
        /\ resized.color = resized.res

RECURSIVE Concat(_)
Concat(lines) == IF lines = <<>> THEN <<>> ELSE Head(lines) \o Concat(Tail(lines))

Count(line, c) == Cardinality({i \in 1..Len(line) : line[i] = c})

EndsWithBreak(line) ==
    Len(line) >= 2 /\ line[Len(line) - 1] = 10 /\ line[Len(line)] = 13

\* C2: in an h-row render, with new_lines = false the concatenation of the
\* returned lines holds no line-break character; with new_lines = true it
\* holds exactly h-1 line breaks, one ending each row but the last.
C2_LineBreaks ==
    ascii.status = "ok" =>
        LET h == Len(ascii.lines)
            all == Concat(ascii.lines)
        IN  /\ Count(all, 10) = (IF new_lines THEN h - 1 ELSE 0)
            /\ Count(all, 13) = (IF new_lines THEN h - 1 ELSE 0)
            /\ \A y \in 1..h : EndsWithBreak(ascii.lines[y]) <=> (new_lines /\ y < h)

C2_Witness ==
    /\ ascii.status = "ok" /\ new_lines
    /\ Len(ascii.lines) = 2
    /\ EndsWithBreak(ascii.lines[1])
    /\ ~EndsWithBreak(ascii.lines[2])

\* the glyph of cell (x, y) of the grid, columns and rows counted from 1
CellGlyph(x, y) ==
    LET sub == get_subpixels(char_map)
    IN  get_char(char_map,
                 View(resized.pat, (x - 1) * sub[1], (y - 1) * sub[2], sub[1], sub[2])).ch

BreakLen(y, h) == IF new_lines /\ y < h THEN 2 ELSE 0

\* C3 as stated: every row to_ascii returns starts with the encoder's line
\* prefix (U+E017 for TeletextMosaic) exactly once, before the row's glyphs;
\* for every other variant no prefix is added.
C3_AsStated ==
    ascii.status = "ok" =>
        \A y \in 1..Len(ascii.lines) :
            LET line == ascii.lines[y]
                prefix == get_line_prefix(char_map)
                w == Nat32(target_resolution[1])
            IN  /\ Len(line) = Len(prefix) + w + BreakLen(y, Len(ascii.lines))
                /\ SubSeq(line, 1, Len(prefix)) = prefix
                /\ \A x \in 1..w : line[Len(prefix) + x] = CellGlyph(x, y)

\* C3 amended: to_ascii adds no prefix for any variant: every row it returns
\* is exactly the w glyphs of the row, then the line break when one is due, so
\* a TeletextMosaic row does not hold U+E017; get_line_prefix only reports the
\* prefix (U+E017 for TeletextMosaic, empty otherwise) for the caller to emit.
C3_NoPrefixAdded ==
    ascii.status = "ok" =>
        /\ get_line_prefix(char_map) = (IF char_map = TeletextMosaic THEN <<57367>> ELSE <<>>)
        /\ \A y \in 1..Len(ascii.lines) :
            LET line == ascii.lines[y]
                w == Nat32(target_resolution[1])
            IN  /\ Len(line) = w + BreakLen(y, Len(ascii.lines))
                /\ \A x \in 1..w : line[x] = CellGlyph(x, y)
                /\ char_map = TeletextMosaic => Count(line, 57367) = 0

C3_Witness ==
    /\ ascii.status = "ok" /\ char_map = TeletextMosaic
    /\ Len(ascii.lines) = 2
    /\ Len(ascii.lines[1]) >= 2
    /\ ascii.lines[1][1] # 57367
    /\ ascii.lines[1][1] = CellGlyph(1, 1)

HasZero(dims) == IsZero(dims[1]) \/ IsZero(dims[2])

\* C8: resize rejects a zero width or height of the source image or of the
\* target resolution: it returns the data error before the resize primitive
\* is invoked, with no buffers.
C8_ZeroRejected ==
    (resized.status # "none" /\ (HasZero(resized.img) \/ HasZero(resized.res))) =>
        /\ resized.status = "err_data"
        /\ resized.prim_calls = 0
        /\ resized.lum = <<>> /\ resized.color = <<>>

\* C9: when resize succeeds and to_ascii is called on the returned luminance
\* buffer with target resolution and char map as they were, the assertions of
\* to_ascii hold and the result has exactly h lines of exactly w glyphs each.
C9_RenderMatches ==
    (ascii.status # "none" /\ resized.res = target_resolution /\ resized.map = char_map) =>
        /\ ascii.status = "ok"
        /\ Len(ascii.lines) = Nat32(target_resolution[2])
        /\ \A y \in 1..Len(ascii.lines) :
               Len(ascii.lines[y])
                   = Nat32(target_resolution[1]) + BreakLen(y, Len(ascii.lines))

-----------------------------------------------------------------------------
(* A single get_char call on an arbitrary pixel block *)

\* luminances sampled for the dot-matrix encoders: both sides of the threshold
SampleLums == {0, 127, 128, 255}

\* characters of the user-supplied sequences ('a', 'b')
Alphabet == {97, 98}

UserSeqs == UNION {[1..n -> Alphabet] : n \in 0..MaxLen}

EncMaps == {CharMapsFrom(s) : s \in UserSeqs \cup {CHARS1}} \cup {Braille, Mosaic, TeletextMosaic}

\* the pixel positions of a SubImage of the encoder's block size
Positions(map) ==
    (0..(get_subpixels(map)[1] - 1)) \X (0..(get_subpixels(map)[2] - 1))

Lums(map) == IF map.kind = "Simple" THEN 0..255 ELSE SampleLums

\* a pipeline nobody calls
IdlePipeline ==
    /\ target_resolution = <<<<0, 1>>, <<0, 1>>>>
    /\ char_map = Braille
    /\ new_lines = FALSE
    /\ overflow_checks = FALSE
    /\ resized = [status |-> "none"]
    /\ ascii = [status |-> "none"]

EncInit ==
    /\ IdlePipeline
    /\ enc_map \in EncMaps
    /\ enc_image \in [Positions(enc_map) -> Lums(enc_map)]
    /\ enc_char = <<>>

\* CharMap::get_char called once on the block
Encode ==
    /\ enc_char = <<>>
    /\ enc_char' = <<get_char(enc_map, enc_image)>>
    /\ UNCHANGED <<enc_map, enc_image>>
    /\ UNCHANGED pipeline_vars

EncNext == Encode

EncSpec == EncInit /\ [][EncNext]_vars

Encoded == enc_char # <<>>

AllLum(image, lum) == \A p \in DOMAIN image : image[p] = lum

\* the number of a block's lit/unlit pattern: bit y*w+x is set iff pixel (x,y) is lit
PatternNo(map, image) ==
    LET w == get_subpixels(map)[1]
        F[k \in 0..Cardinality(DOMAIN image)] ==
            IF k = 0 THEN 0
            ELSE F[k - 1] + (IF Lit(image[<<(k - 1) % w, (k - 1) \div w>>]) THEN 2 ^ (k - 1) ELSE 0)
    IN  F[Cardinality(DOMAIN image)]

PatternNos(map) == 0..(2 ^ Cardinality(Positions(map)) - 1)

\* the block of luminances 0 / 255 whose pattern has number n
CanonBlock(map, n) ==
    LET w == get_subpixels(map)[1]
    IN  [p \in Positions(map) |->
            IF (n \div (2 ^ (p[2] * w + p[1]))) % 2 = 1 THEN 255 ELSE 0]

BrailleTable == [n \in PatternNos(Braille) |-> BrailleGetChar(CanonBlock(Braille, n))]
MosaicTable == [n \in PatternNos(Mosaic) |-> MosaicGetChar(CanonBlock(Mosaic, n))]
TeletextTable == [n \in PatternNos(TeletextMosaic) |-> TeletextGetChar(CanonBlock(TeletextMosaic, n))]

GlyphTable(map) ==
    CASE map.kind = "Braille" -> BrailleTable
      [] map.kind = "Mosaic" -> MosaicTable
      [] map.kind = "TeletextMosaic" -> TeletextTable

-----------------------------------------------------------------------------
(* Properties of the encoders, checked under EncSpec *)

\* C4 as stated: the Braille encoder maps an all-dark 2x4 block (luminance 0)
\* to the full cell U+28FF and an all-bright block (255) to the blank cell U+2800.
C4_AsStated ==
    (Encoded /\ enc_map = Braille) =>
        /\ AllLum(enc_image, 0) => enc_char[1] = Char(10495)
        /\ AllLum(enc_image, 255) => enc_char[1] = Char(10240)

\* C4 amended: the Braille encoder sets a dot for a sample brighter than 127,
\* so an all-dark block yields the blank cell U+2800 and an all-bright block
\* the full cell U+28FF.
C4_BrailleExtremes ==
    (Encoded /\ enc_map = Braille) =>
        /\ AllLum(enc_image, 0) => enc_char[1] = Char(10240)
        /\ AllLum(enc_image, 255) => enc_char[1] = Char(10495)

C4_Witness ==
    /\ Encoded /\ enc_map = Braille
    /\ AllLum(enc_image, 255)
    /\ enc_char[1] = Char(10495)

\* C5: for a lookup sequence of length N (any user-supplied sequence) and any
\* luminance L, get_char reads index floor(N*L/256) < N, never out of bounds,
\* and L = 0 yields the first character of the sequence.
C5_LookupInBounds ==
    (Encoded /\ enc_map.kind = "Simple") =>
        LET N == Len(enc_map.chars)
            L == enc_image[<<0, 0>>]
        IN  /\ (N * L) \div 256 < N
            /\ ~enc_char[1].panic
            /\ enc_char[1].ch = enc_map.chars[((N * L) \div 256) + 1]
            /\ L = 0 => enc_char[1].ch = enc_map.chars[1]

\* the piecewise rule of the sextant block, as a table of code points
SextantRule(m) ==
    CASE m = 0 -> 32
      [] m \in 1..20 -> 129792 + (m - 1)
      [] m = 21 -> 9612
      [] m \in 22..41 -> 129792 + (m - 2)
      [] m = 42 -> 9616
      [] m \in 43..62 -> 129792 + (m - 3)
      [] m = 63 -> 9608

\* C6: the mask Mosaic::get_char computes from a 2x3 block is in [0, 0x3F], the
\* character is the one the piecewise rule gives, and the out-of-bounds panic
\* is never reached.
C6_SextantRule ==
    (Encoded /\ enc_map = Mosaic) =>
        /\ MosaicMask(enc_image) \in 0..63
        /\ enc_char[1] = Char(SextantRule(MosaicMask(enc_image)))

C6_Witness ==
    /\ Encoded /\ enc_map = Mosaic
    /\ MosaicMask(enc_image) = 21
    /\ enc_char[1] = Char(9612)

\* C7: for every mask computed from a 2x3 block the teletext code point
\* 0xE020 + (mask & 0x1F) + ((mask & 0x20) << 1) lies in 0xE000..0xE0FF: neither
\* the range assertion nor the >= 0x40 panic fires.
C7_TeletextInRange ==
    (Encoded /\ enc_map = TeletextMosaic) =>
        /\ MosaicMask(enc_image) < 64
        /\ ~enc_char[1].panic
        /\ enc_char[1].ch >= 57344 /\ enc_char[1].ch <= 57599

C7_Witness ==
    /\ Encoded /\ enc_map = TeletextMosaic
    /\ MosaicMask(enc_image) = 63
    /\ enc_char[1] = Char(57471)

\* C10: each dot-matrix encoder is injective on lit/unlit patterns: two blocks
\* yield the same character exactly when their thresholded patterns are equal.
C10_Injective ==
    (Encoded /\ enc_map.kind # "Simple") =>
        LET mine == PatternNo(enc_map, enc_image)
            table == GlyphTable(enc_map)
        IN  \A n \in PatternNos(enc_map) : (n = mine) <=> (table[n] = enc_char[1])

C10_Witness ==
    /\ Encoded /\ enc_map = Mosaic
    /\ MosaicMask(enc_image) = 42
    /\ enc_char[1] = Char(9616)
    /\ enc_image # CanonBlock(Mosaic, 42)
    /\ MosaicTable[42] = enc_char[1]

====
